---------------------------- MODULE Spec2Model ----------------------------
(***************************************************************************)
(* Model of claude-server: the CDK stack constructor (validateConfig,      *)
(* parseInstanceType, resource composition, user-data rendering) and the   *)
(* EC2 first-boot script.                                                  *)
(*                                                                         *)
(* Strings are sequences of characters (one-character strings).  A few     *)
(* multi-character units that no test of the code looks inside (the        *)
(* placeholder tokens of the template, fixed pieces of text, CloudFormation*)
(* attribute references) are single elements of such a sequence.           *)
(***************************************************************************)
EXTENDS Integers, Sequences, FiniteSets, TLC

VARIABLES
    config,     \* the Config record exported by config/config.ts
    pc,         \* "new" | "synthesized" | "threw": position of the CDK app
    error,      \* the Error thrown by the constructor (NoError if none)
    children,   \* constructs added to the stack, in creation order
    userData,   \* the rendered init.sh handed to the instance
    step,       \* the section of init.sh to run next, or "exited"
    exitStatus, \* exit status of init.sh (Running until it exits)
    runs,       \* how many times init.sh was started on the instance
    ran,        \* sections of init.sh executed by the current run, in order
    failed,     \* commands that returned a non-zero status in the current run
    log,        \* messages the current run echoed
    CODE_SERVER_PASSWORD,   \* the shell variable of that name
    host        \* files and services of the instance

stackVars == <<config, pc, error, children, userData>>
bootVars == <<step, exitStatus, runs, ran, failed, log, CODE_SERVER_PASSWORD, host>>
vars == <<stackVars, bootVars>>

-----------------------------------------------------------------------------
(* Bounds of the model *)

\* longest generated domain string
MaxDomainLen == 6
\* longest generated email string
MaxEmailLen == 5
\* longest generated list of additional SSH public keys
MaxKeys == 2
\* how many times the boot script is started on one instance
MaxRuns == 2

-----------------------------------------------------------------------------
(* Strings *)

\* JavaScript's undefined, for optional (or missing) string-valued fields
Undefined == <<"<undefined>">>

\* an optional array: undefined, or the array's items
NoArray == [defined |-> FALSE, items |-> <<>>]
Array(xs) == [defined |-> TRUE, items |-> xs]

SeqsUpTo(S, n) == UNION {[1..k -> S] : k \in 0..n}

\* !x for a string-valued field: undefined and "" are falsy
Truthy(s) == s # Undefined /\ s # <<>>

\* String.prototype.startsWith
StartsWith(s, p) == Len(s) >= Len(p) /\ SubSeq(s, 1, Len(p)) = p

\* String.prototype.includes for a one-character needle
Includes(s, c) == \E i \in 1..Len(s) : s[i] = c

\* grep -F: needle occurs in s as a contiguous substring
Contains(s, needle) ==
    \E i \in 0..(Len(s) - Len(needle)) : SubSeq(s, i + 1, i + Len(needle)) = needle

RECURSIVE Split(_, _)
\* String.prototype.split(sep): the pieces between occurrences of sep
Split(s, sep) ==
    IF \A i \in 1..Len(s) : s[i] # sep
    THEN <<s>>
    ELSE LET i == CHOOSE k \in 1..Len(s) :
                     s[k] = sep /\ \A j \in 1..(k - 1) : s[j] # sep
         IN  <<SubSeq(s, 1, i - 1)>> \o Split(SubSeq(s, i + 1, Len(s)), sep)

RECURSIVE Join(_, _)
\* Array.prototype.join(sep)
Join(parts, sep) ==
    IF Len(parts) = 0 THEN <<>>
    ELSE IF Len(parts) = 1 THEN parts[1]
    ELSE parts[1] \o <<sep>> \o Join(Tail(parts), sep)

\* character classes of the regular expressions (the /i flag adds upper case)
Lower == {"a", "b", "c", "d", "e", "f", "g", "h", "i", "j", "k", "l", "m",
          "n", "o", "p", "q", "r", "s", "t", "u", "v", "w", "x", "y", "z"}
Upper == {"A", "B", "C", "D", "E", "F", "G", "H", "I", "J", "K", "L", "M",
          "N", "O", "P", "Q", "R", "S", "T", "U", "V", "W", "X", "Y", "Z"}
Digit == {"0", "1", "2", "3", "4", "5", "6", "7", "8", "9"}
Alpha == Lower \cup Upper
AlNum == Alpha \cup Digit
Whitespace == {" ", "\t", "\n"}

-----------------------------------------------------------------------------
(* validateConfig *)

\* States of the automaton of
\* /^[a-z0-9]([a-z0-9-]*[a-z0-9])?(\.[a-z0-9]([a-z0-9-]*[a-z0-9])?)*\.[a-z]{2,}$/i
\*   "L0": at the start of a label         "L1": in a label, after [a-z0-9]
\*   "L2": in a label, after a hyphen      "T0": after the last dot
\*   "T1": one letter of [a-z]{2,} read    "T2": two or more read (accepting)
DomainStep(q, c) ==
    CASE q = "L0" -> IF c \in AlNum THEN {"L1"} ELSE {}
      [] q = "L1" -> IF c \in AlNum THEN {"L1"}
                     ELSE IF c = "-" THEN {"L2"}
                     ELSE IF c = "." THEN {"L0", "T0"}
                     ELSE {}
      [] q = "L2" -> IF c \in AlNum THEN {"L1"}
                     ELSE IF c = "-" THEN {"L2"}
                     ELSE {}
      [] q = "T0" -> IF c \in Alpha THEN {"T1"} ELSE {}
      [] q = "T1" -> IF c \in Alpha THEN {"T2"} ELSE {}
      [] q = "T2" -> IF c \in Alpha THEN {"T2"} ELSE {}

RECURSIVE DomainRun(_, _)
DomainRun(qs, s) ==
    IF Len(s) = 0 THEN qs
    ELSE DomainRun(UNION {DomainStep(q, Head(s)) : q \in qs}, Tail(s))

\* the pattern with [a-z]+ for its last label
DomainPatternTestAnyTld(s) == {"T1", "T2"} \cap DomainRun({"L0"}, s) # {}

\* the domain pattern's .test(s)
DomainPatternTest(s) == "T2" \in DomainRun({"L0"}, s)

\* /^(ssh-rsa|ssh-ed25519|ecdsa-sha2-nistp)/
SshRsa == <<"s", "s", "h", "-", "r", "s", "a">>
SshEd25519 == <<"s", "s", "h", "-", "e", "d", "2", "5", "5", "1", "9">>
EcdsaSha2Nistp ==
    <<"e", "c", "d", "s", "a", "-", "s", "h", "a", "2", "-", "n", "i", "s", "t", "p">>
sshKeyPattern(key) ==
    \/ StartsWith(key, SshRsa)
    \/ StartsWith(key, SshEd25519)
    \/ StartsWith(key, EcdsaSha2Nistp)

\* String.prototype.trim() === ''
TrimIsEmpty(s) == \A i \in 1..Len(s) : s[i] \in Whitespace

NoIndex == 0 - 1
NoError == [field |-> "none", rule |-> "none", index |-> NoIndex]
Err(f, r, i) == [field |-> f, rule |-> r, index |-> i]

\* the first index (0-based, as forEach passes it) whose key fails the pattern
FirstBadKey(keys) ==
    IF \A i \in 1..Len(keys) : sshKeyPattern(keys[i]) THEN NoIndex
    ELSE (CHOOSE i \in 1..Len(keys) :
              /\ ~sshKeyPattern(keys[i])
              /\ \A j \in 1..(i - 1) : sshKeyPattern(keys[j])) - 1

MinVolumeSize == 8
MaxVolumeSize == 16384

\* the conditions under which validateConfig throws, one per rule
DomainInvalid(cfg) == ~Truthy(cfg.domain) \/ ~DomainPatternTest(cfg.domain)

HostedZoneIdInvalidNeedsEip(cfg) ==
    Truthy(cfg.hostedZoneId)
    /\ (~StartsWith(cfg.hostedZoneId, <<"Z">>) \/ cfg.useElasticIp # "true")

HostedZoneIdInvalid(cfg) ==
    Truthy(cfg.hostedZoneId) /\ ~StartsWith(cfg.hostedZoneId, <<"Z">>)

\* the rule with includes('/') for startsWith('/')
ParameterNameInvalidAnywhere(cfg) ==
    ~Truthy(cfg.ssmPasswordParameterName)
    \/ ~Includes(cfg.ssmPasswordParameterName, "/")

ParameterNameInvalid(cfg) ==
    ~Truthy(cfg.ssmPasswordParameterName)
    \/ ~StartsWith(cfg.ssmPasswordParameterName, <<"/">>)

EmailInvalid(cfg) ==
    ~Truthy(cfg.email) \/ ~Includes(cfg.email, "@") \/ ~Includes(cfg.email, ".")

KeyPairNameInvalid(cfg) == ~Truthy(cfg.keyPairName) \/ TrimIsEmpty(cfg.keyPairName)

\* the rule with <= and >= for < and >
VolumeSizeInvalidExclusive(cfg) ==
    cfg.volumeSize <= MinVolumeSize \/ cfg.volumeSize >= MaxVolumeSize

VolumeSizeInvalid(cfg) ==
    cfg.volumeSize < MinVolumeSize \/ cfg.volumeSize > MaxVolumeSize

\* the rule testing the first key of the list only
KeysInvalidFirstOnly(cfg) ==
    /\ cfg.additionalSshPublicKeys.defined
    /\ Len(cfg.additionalSshPublicKeys.items) >= 1
    /\ ~sshKeyPattern(cfg.additionalSshPublicKeys.items[1])

KeysInvalid(cfg) ==
    cfg.additionalSshPublicKeys.defined
    /\ FirstBadKey(cfg.additionalSshPublicKeys.items) # NoIndex

KeysError(cfg) ==
    Err("additionalSshPublicKeys", "format", FirstBadKey(cfg.additionalSshPublicKeys.items))

\* validateConfig with the volume size checked before the email
validateConfigVolumeFirst(cfg) ==
    IF DomainInvalid(cfg) THEN Err("domain", "format", NoIndex)
    ELSE IF HostedZoneIdInvalid(cfg) THEN Err("hostedZoneId", "prefix", NoIndex)
    ELSE IF ParameterNameInvalid(cfg) THEN Err("ssmPasswordParameterName", "prefix", NoIndex)
    ELSE IF VolumeSizeInvalid(cfg) THEN Err("volumeSize", "range", NoIndex)
    ELSE IF EmailInvalid(cfg) THEN Err("email", "format", NoIndex)
    ELSE IF KeyPairNameInvalid(cfg) THEN Err("keyPairName", "required", NoIndex)
    ELSE IF KeysInvalid(cfg) THEN KeysError(cfg)
    ELSE NoError

\* the Error validateConfig throws (NoError when it returns)
validateConfig(cfg) ==
    IF DomainInvalid(cfg) THEN Err("domain", "format", NoIndex)
    ELSE IF HostedZoneIdInvalid(cfg) THEN Err("hostedZoneId", "prefix", NoIndex)
    ELSE IF ParameterNameInvalid(cfg) THEN Err("ssmPasswordParameterName", "prefix", NoIndex)
    ELSE IF EmailInvalid(cfg) THEN Err("email", "format", NoIndex)
    ELSE IF KeyPairNameInvalid(cfg) THEN Err("keyPairName", "required", NoIndex)
    ELSE IF VolumeSizeInvalid(cfg) THEN Err("volumeSize", "range", NoIndex)
    ELSE IF KeysInvalid(cfg) THEN KeysError(cfg)
    ELSE NoError

-----------------------------------------------------------------------------
(* parseInstanceType *)

\* String.prototype.toUpperCase, on the units instance types are written with
ToUpperCase(s) ==
    [i \in 1..Len(s) |->
        CASE s[i] = "t4g" -> "T4G"
          [] s[i] = "small" -> "SMALL"
          [] s[i] = "zz" -> "ZZ"
          [] OTHER -> s[i]]

\* the keys of aws-cdk-lib's InstanceClass and InstanceSize enums that the
\* generated instance types can name
InstanceClass == {<<"T4G">>}
InstanceSize == {<<"SMALL">>}

parseInstanceType(instanceType) ==
    LET parts == Split(instanceType, ".")
    IN  IF Len(parts) # 2
        THEN [error |-> Err("instanceType", "format", NoIndex),
              instanceClass |-> <<>>, instanceSize |-> <<>>]
        ELSE IF ToUpperCase(parts[1]) \notin InstanceClass
        THEN [error |-> Err("instanceType", "class", NoIndex),
              instanceClass |-> <<>>, instanceSize |-> <<>>]
        ELSE IF ToUpperCase(parts[2]) \notin InstanceSize
        THEN [error |-> Err("instanceType", "size", NoIndex),
              instanceClass |-> <<>>, instanceSize |-> <<>>]
        ELSE [error |-> NoError,
              instanceClass |-> ToUpperCase(parts[1]),
              instanceSize |-> ToUpperCase(parts[2])]

-----------------------------------------------------------------------------
(* Rendering of the user-data script *)

Placeholders ==
    {"__DOMAIN__", "__EMAIL__", "__ADDITIONAL_SSH_KEYS__", "__AWS_REGION__",
     "__SSM_PASSWORD_PARAMETER__", "__ENABLE_SSH_PASSWORD_AUTH__"}

\* scripts/init.sh: the lines that hold a placeholder, in file order
InitSh ==
    <<"DOMAIN=", "\"", "__DOMAIN__", "\"", "\n",
      "EMAIL=", "\"", "__EMAIL__", "\"", "\n",
      "AWS_REGION=", "\"", "__AWS_REGION__", "\"", "\n",
      "SSM_PASSWORD_PARAMETER=", "\"", "__SSM_PASSWORD_PARAMETER__", "\"", "\n",
      "ENABLE_SSH_PASSWORD_AUTH=", "\"", "__ENABLE_SSH_PASSWORD_AUTH__", "\"", "\n",
      "server_name ", "__DOMAIN__", ";", "\n",
      "server_name ", "__DOMAIN__", ";", "\n",
      "server_name ", "__DOMAIN__", ";", "\n",
      "ssl_certificate /etc/letsencrypt/live/", "__DOMAIN__", "/fullchain.pem;", "\n",
      "ssl_certificate_key /etc/letsencrypt/live/", "__DOMAIN__", "/privkey.pem;", "\n",
      "ADDITIONAL_KEYS=", "\"", "__ADDITIONAL_SSH_KEYS__", "\"", "\n">>

RECURSIVE Expand(_, _, _, _)
\* The text a replacement string stands for at one match of String.replace:
\* $$ is a dollar sign, $& the matched text, $` the text before the match and
\* $' the text after it; anything else stands for itself.
Expand(replacement, matched, before, after) ==
    IF Len(replacement) = 0 THEN <<>>
    ELSE IF Len(replacement) >= 2 /\ replacement[1] = "$"
            /\ replacement[2] \in {"$", "&", "`", "'"}
    THEN (CASE replacement[2] = "$" -> <<"$">>
            [] replacement[2] = "&" -> <<matched>>
            [] replacement[2] = "`" -> before
            [] replacement[2] = "'" -> after)
         \o Expand(SubSeq(replacement, 3, Len(replacement)), matched, before, after)
    ELSE <<Head(replacement)>> \o Expand(Tail(replacement), matched, before, after)

RECURSIVE Flatten(_, _, _)
\* the concatenation of pieces[lo], ..., pieces[hi]
Flatten(pieces, lo, hi) ==
    IF lo > hi THEN <<>>
    ELSE IF lo = hi THEN pieces[lo]
    ELSE Flatten(pieces, lo, (lo + hi) \div 2) \o Flatten(pieces, (lo + hi) \div 2 + 1, hi)

\* s.replace(/token/g, replacement): every match is replaced, scanning the
\* original string (inserted text is not scanned again)
Replace(s, token, replacement) ==
    Flatten([i \in 1..Len(s) |->
                IF s[i] = token
                THEN Expand(replacement, token, SubSeq(s, 1, i - 1), SubSeq(s, i + 1, Len(s)))
                ELSE <<s[i]>>],
            1, Len(s))

\* config.additionalSshPublicKeys?.join('\n') || ''
additionalSshKeys(cfg) ==
    IF cfg.additionalSshPublicKeys.defined
    THEN Join(cfg.additionalSshPublicKeys.items, "\n")
    ELSE <<>>

\* config.enableSshPasswordAuth !== false ? 'true' : 'false'
PasswordAuthFlagDefaultOn(cfg) ==
    IF cfg.enableSshPasswordAuth # "false" THEN <<"true">> ELSE <<"false">>

\* config.enableSshPasswordAuth ? 'true' : 'false'
PasswordAuthFlag(cfg) ==
    IF cfg.enableSshPasswordAuth = "true" THEN <<"true">> ELSE <<"false">>

userDataScript(cfg) ==
    LET s1 == Replace(InitSh, "__DOMAIN__", cfg.domain)
        s2 == Replace(s1, "__EMAIL__", cfg.email)
        s3 == Replace(s2, "__ADDITIONAL_SSH_KEYS__", additionalSshKeys(cfg))
        s4 == Replace(s3, "__AWS_REGION__", cfg.region)
        s5 == Replace(s4, "__SSM_PASSWORD_PARAMETER__", cfg.ssmPasswordParameterName)
    IN  Replace(s5, "__ENABLE_SSH_PASSWORD_AUTH__", PasswordAuthFlag(cfg))

-----------------------------------------------------------------------------
(* The ClaudeServerStack constructor *)

\* a reference to a construct, or to one of its attributes: a token that
\* CloudFormation resolves at deploy time
Ref(id) == <<"${", id, "}">>
Attr(id, a) == <<"${", id, ".", a, "}">>
RefTarget(v) == v[2]

\* config.domain.split('.').slice(1).join('.')
ZoneName(domain) == Join(Tail(Split(domain, ".")), ".")

\* constructs created before the instance (lines 126-175)
BaseConstructs(cfg) ==
    << [type |-> "Vpc.fromLookup", id |-> "VPC"],
       [type |-> "SecurityGroup", id |-> "DevServerSG", ingress |-> <<443, 80, 22>>],
       [type |-> "Role", id |-> "DevInstanceRole",
        managedPolicies |-> <<"AmazonSSMManagedInstanceCore">>,
        grantRead |-> <<"CodeServerPassword">>],
       [type |-> "StringParameter.fromSecureStringParameterAttributes",
        id |-> "CodeServerPassword", parameterName |-> cfg.ssmPasswordParameterName] >>

\* the EC2 instance (lines 191-211)
InstanceConstructs(cfg, it, script) ==
    << [type |-> "KeyPair.fromKeyPairName", id |-> "KeyPair", name |-> cfg.keyPairName],
       [type |-> "Instance", id |-> "DevInstance",
        instanceClass |-> it.instanceClass, instanceSize |-> it.instanceSize,
        securityGroup |-> "DevServerSG", role |-> "DevInstanceRole",
        userData |-> script, keyPair |-> "KeyPair", volumeSize |-> cfg.volumeSize] >>

\* the DNS branch with the record pointed at the instance's own address
DnsConstructsTargetInstance(cfg) ==
    IF Truthy(cfg.hostedZoneId)
    THEN << [type |-> "HostedZone.fromHostedZoneAttributes", id |-> "HostedZone",
             hostedZoneId |-> cfg.hostedZoneId, zoneName |-> ZoneName(cfg.domain)],
            [type |-> "ARecord", id |-> "DevServerDNS", zone |-> "HostedZone",
             recordName |-> cfg.domain, target |-> Attr("DevInstance", "PublicIp"),
             ttlMinutes |-> 5] >>
    ELSE <<>>

\* the DNS branch (lines 230-244)
DnsConstructs(cfg) ==
    IF Truthy(cfg.hostedZoneId)
    THEN << [type |-> "HostedZone.fromHostedZoneAttributes", id |-> "HostedZone",
             hostedZoneId |-> cfg.hostedZoneId, zoneName |-> ZoneName(cfg.domain)],
            [type |-> "ARecord", id |-> "DevServerDNS", zone |-> "HostedZone",
             recordName |-> cfg.domain, target |-> Attr("DevServerEIP", "PublicIp"), ttlMinutes |-> 5] >>
    ELSE <<>>

\* the Elastic IP branch with the DNS branch moved out of it
EipConstructsDnsOutside(cfg) ==
    (IF cfg.useElasticIp = "true"
     THEN << [type |-> "CfnEIP", id |-> "DevServerEIP", domain |-> "vpc"],
             [type |-> "CfnEIPAssociation", id |-> "DevServerEIPAssociation",
              allocationId |-> Attr("DevServerEIP", "AllocationId"),
              instanceId |-> Ref("DevInstance")] >>
     ELSE <<>>)
    \o DnsConstructs(cfg)

\* the Elastic IP branch (lines 217-245)
EipConstructs(cfg) ==
    IF cfg.useElasticIp = "true"
    THEN << [type |-> "CfnEIP", id |-> "DevServerEIP", domain |-> "vpc"],
            [type |-> "CfnEIPAssociation", id |-> "DevServerEIPAssociation",
             allocationId |-> Attr("DevServerEIP", "AllocationId"),
             instanceId |-> Ref("DevInstance")] >>
         \o DnsConstructs(cfg)
    ELSE <<>>

\* let publicIp, as it stands at line 247
publicIp(cfg) ==
    IF cfg.useElasticIp = "true"
    THEN Attr("DevServerEIP", "PublicIp")
    ELSE Attr("DevInstance", "PublicIp")

\* dnsAutoConfigured set as soon as the Elastic IP is allocated
dnsAutoConfiguredByEip(cfg) == cfg.useElasticIp = "true"

\* let dnsAutoConfigured, as it stands at line 247
dnsAutoConfigured(cfg) == cfg.useElasticIp = "true" /\ Truthy(cfg.hostedZoneId)

Output(name, v) == [type |-> "CfnOutput", id |-> name, value |-> v]

\* the stack outputs (lines 247-280)
Outputs(cfg) ==
    << Output("InstanceId", Ref("DevInstance")),
       Output("PublicIP", publicIp(cfg)),
       Output("AccessURL", <<"https://">> \o cfg.domain),
       Output("SSHCommand", <<"ssh ec2-user@">> \o cfg.domain),
       Output("DNSSetup",
              IF dnsAutoConfigured(cfg)
              THEN <<"DNS A record created automatically for ">> \o cfg.domain
              ELSE <<"Create A record: ">> \o cfg.domain \o <<" -> <PublicIP>">>),
       Output("PasswordLocation",
              <<"SSM Parameter Store: ">> \o cfg.ssmPasswordParameterName) >>

Composed(cfg) ==
    BaseConstructs(cfg)
    \o InstanceConstructs(cfg, parseInstanceType(cfg.instanceType), userDataScript(cfg))
    \o EipConstructs(cfg) \o Outputs(cfg)

Threw(e) == [pc |-> "threw", error |-> e, children |-> <<>>, userData |-> <<>>]

\* the constructor with the two validations moved after the composition
ClaudeServerStackValidatesLast(cfg) ==
    LET v == validateConfig(cfg)
        it == parseInstanceType(cfg.instanceType)
    IN  IF v # NoError
        THEN [pc |-> "threw", error |-> v, children |-> Composed(cfg),
              userData |-> userDataScript(cfg)]
        ELSE IF it.error # NoError
        THEN [pc |-> "threw", error |-> it.error, children |-> Composed(cfg),
              userData |-> userDataScript(cfg)]
        ELSE [pc |-> "synthesized", error |-> NoError, children |-> Composed(cfg),
              userData |-> userDataScript(cfg)]

\* new ClaudeServerStack(app, 'ClaudeServerStack', ...): the state the
\* constructor leaves, whether it returns or throws
ClaudeServerStack(cfg) ==
    LET v == validateConfig(cfg)
        it == parseInstanceType(cfg.instanceType)
    IN  IF v # NoError THEN Threw(v)
        ELSE IF it.error # NoError THEN Threw(it.error)
        ELSE [pc |-> "synthesized", error |-> NoError, children |-> Composed(cfg),
              userData |-> userDataScript(cfg)]

-----------------------------------------------------------------------------
(* Configurations the model is run on *)

\* sample public keys
KeyRsa == SshRsa \o <<" ", "A">>
KeyRsaLong == SshRsa \o <<" ", "A", "B">>
KeyEd25519 == SshEd25519 \o <<" ", "A">>
KeyEcdsa == EcdsaSha2Nistp \o <<"2", "5", "6", " ", "A">>
KeyDss == <<"s", "s", "h", "-", "d", "s", "s", " ", "A">>
KeyBare == <<"A">>
SampleKeys == {KeyRsa, KeyEd25519, KeyEcdsa, KeyDss, KeyBare}

\* config/config.example.ts, shortened
BaseConfig ==
    [region |-> <<"us-east-1">>,
     domain |-> <<"d", "e", "v", ".", "e", "x", ".", "c", "o", "m">>,
     hostedZoneId |-> <<"Z", "X">>,
     useElasticIp |-> "true",
     ssmPasswordParameterName |-> <<"/", "p">>,
     email |-> <<"u", "@", "e", ".", "c">>,
     keyPairName |-> <<"k">>,
     additionalSshPublicKeys |-> Array(<<>>),
     instanceType |-> <<"t4g", ".", "small">>,
     volumeSize |-> 30,
     enableSshPasswordAuth |-> "false"]

Tristate == {"true", "false", "undefined"}

Domains ==
    SeqsUpTo({"a", "1", "-", "."}, MaxDomainLen)
    \cup {Undefined, BaseConfig.domain, <<"A", ".", "Z", "z">>, <<"a", "_", "a", ".", "a", "a">>}
HostedZoneIds == SeqsUpTo({"Z", "z", "1"}, 2) \cup {Undefined}
ParameterNames == SeqsUpTo({"/", "p"}, 2) \cup {Undefined}
Emails == SeqsUpTo({"a", "@", "."}, MaxEmailLen) \cup {Undefined, BaseConfig.email}
KeyPairNames == SeqsUpTo({"k", " "}, 2) \cup {Undefined}
VolumeSizes ==
    {0, MinVolumeSize - 1, MinVolumeSize, MinVolumeSize + 1, 30,
     MaxVolumeSize - 1, MaxVolumeSize, MaxVolumeSize + 1}
KeyLists == {NoArray} \cup {Array(ks) : ks \in SeqsUpTo(SampleKeys, MaxKeys)}
InstanceTypes == SeqsUpTo({"t4g", "small", "zz", "."}, 3)

\* configurations that differ from BaseConfig in one field
OneFieldConfigs ==
    {[BaseConfig EXCEPT !.domain = d] : d \in Domains}
    \cup {[BaseConfig EXCEPT !.hostedZoneId = z] : z \in HostedZoneIds}
    \cup {[BaseConfig EXCEPT !.useElasticIp = u] : u \in Tristate}
    \cup {[BaseConfig EXCEPT !.ssmPasswordParameterName = n] : n \in ParameterNames}
    \cup {[BaseConfig EXCEPT !.email = e] : e \in Emails}
    \cup {[BaseConfig EXCEPT !.keyPairName = k] : k \in KeyPairNames}
    \cup {[BaseConfig EXCEPT !.additionalSshPublicKeys = ks] : ks \in KeyLists}
    \cup {[BaseConfig EXCEPT !.instanceType = t] : t \in InstanceTypes}
    \cup {[BaseConfig EXCEPT !.volumeSize = n] : n \in VolumeSizes}
    \cup {[BaseConfig EXCEPT !.enableSshPasswordAuth = b] : b \in Tristate}

\* configurations in which every field is one of a few good and bad values
MixedConfigs ==
    [region : {BaseConfig.region},
     domain : {<<"a", ".", "a", "a">>, <<"a">>},
     hostedZoneId : {Undefined, <<>>, <<"Z", "1">>, <<"z", "1">>},
     useElasticIp : Tristate,
     ssmPasswordParameterName : {<<"/", "p">>, <<"p">>},
     email : {<<"a", "@", "a", ".", "a">>, <<"a">>},
     keyPairName : {<<"k">>, <<" ">>},
     additionalSshPublicKeys :
         {NoArray, Array(<<KeyRsa>>), Array(<<KeyBare>>), Array(<<KeyEcdsa, KeyBare>>)},
     instanceType : {<<"t4g", ".", "small">>, <<"t4g", ".", "zz">>},
     volumeSize : {MinVolumeSize - 1, 30},
     enableSshPasswordAuth : {"true", "undefined"}]

\* configurations whose values hold text that String.replace treats specially
TemplateTextConfigs ==
    [region : {BaseConfig.region, <<"__DOMAIN__">>, <<"$", "&">>},
     domain : {BaseConfig.domain},
     hostedZoneId : {BaseConfig.hostedZoneId},
     useElasticIp : {BaseConfig.useElasticIp},
     ssmPasswordParameterName :
         {<<"/", "p">>, <<"/", "__ENABLE_SSH_PASSWORD_AUTH__">>, <<"/", "$", "$">>},
     email : {BaseConfig.email, <<"__AWS_REGION__", "@", "e", ".", "c">>,
              <<"u", "$", "&", "@", "e", ".", "c">>},
     keyPairName : {BaseConfig.keyPairName},
     additionalSshPublicKeys :
         {NoArray, Array(<<KeyRsa>>), Array(<<KeyRsa \o <<" ", "__EMAIL__">> >>),
          Array(<<KeyRsa \o <<" ", "__SSM_PASSWORD_PARAMETER__">> >>)},
     instanceType : {BaseConfig.instanceType},
     volumeSize : {BaseConfig.volumeSize},
     enableSshPasswordAuth : {"true", "false"}]

Configs == OneFieldConfigs \cup MixedConfigs \cup TemplateTextConfigs

-----------------------------------------------------------------------------
(* The CDK application: bin/claude-server.ts *)

Running == 0 - 1
NoFile == <<"<no file>">>

\* the public key of the EC2 key pair, which the instance starts with
Ec2KeyPairKey == SshRsa \o <<" ", "E">>

\* the instance as launched, before init.sh has run
FreshHost ==
    [codeServerInstalled |-> FALSE,
     configYaml |-> NoFile,
     codeServerEnabled |-> FALSE,
     nginxConf |-> "none",
     nginxServing |-> "none",
     certExists |-> FALSE,
     userPassword |-> NoFile,
     sshdPasswordAuthentication |-> FALSE,
     sshdRestarted |-> FALSE,
     authorizedKeys |-> <<Ec2KeyPairKey>>,
     claudeInstalled |-> FALSE]

BootNotStarted ==
    /\ step = "InstallPackages"
    /\ exitStatus = Running
    /\ runs = 0
    /\ ran = <<>>
    /\ failed = <<>>
    /\ log = <<>>
    /\ CODE_SERVER_PASSWORD = <<>>
    /\ host = FreshHost

Init ==
    /\ config \in Configs
    /\ pc = "new"
    /\ error = NoError
    /\ children = <<>>
    /\ userData = <<>>
    /\ BootNotStarted

\* new ClaudeServerStack(app, 'ClaudeServerStack', {...})
Construct ==
    /\ pc = "new"
    /\ LET r == ClaudeServerStack(config)
       IN  /\ pc' = r.pc
           /\ error' = r.error
           /\ children' = r.children
           /\ userData' = r.userData
    /\ UNCHANGED <<config, bootVars>>

Next == Construct

Spec == Init /\ [][Next]_vars

-----------------------------------------------------------------------------
(* Properties of the constructor *)

\* the hostname grammar, stated on the labels of the name: one or more labels
\* of letters, digits and inner hyphens, then a top-level label of two or
\* more letters, separated by dots
IsLabel(l) ==
    /\ Len(l) >= 1
    /\ \A i \in 1..Len(l) : l[i] \in AlNum \cup {"-"}
    /\ l[1] \in AlNum
    /\ l[Len(l)] \in AlNum
IsTopLevelLabel(l) == Len(l) >= 2 /\ \A i \in 1..Len(l) : l[i] \in Alpha
IsHostname(d) ==
    /\ d # Undefined
    /\ LET labels == Split(d, ".")
       IN  /\ Len(labels) >= 2
           /\ \A i \in 1..(Len(labels) - 1) : IsLabel(labels[i])
           /\ IsTopLevelLabel(labels[Len(labels)])

\* local@domain with a dot inside the domain part
IsEmailAddress(e) ==
    /\ e # Undefined
    /\ \E i \in 2..Len(e) :
          /\ e[i] = "@"
          /\ \A j \in 1..Len(e) : e[j] = "@" => j = i
          /\ \E k \in (i + 2)..(Len(e) - 1) : e[k] = "."

WellFormed(cfg) ==
    /\ IsHostname(cfg.domain)
    /\ cfg.hostedZoneId = Undefined \/ StartsWith(cfg.hostedZoneId, <<"Z">>)
    /\ cfg.ssmPasswordParameterName # Undefined
    /\ StartsWith(cfg.ssmPasswordParameterName, <<"/">>)
    /\ IsEmailAddress(cfg.email)
    /\ cfg.keyPairName # Undefined
    /\ \E i \in 1..Len(cfg.keyPairName) : cfg.keyPairName[i] \notin Whitespace
    /\ cfg.volumeSize \in MinVolumeSize..MaxVolumeSize
    /\ \A i \in 1..Len(cfg.additionalSshPublicKeys.items) :
          \/ StartsWith(cfg.additionalSshPublicKeys.items[i], SshRsa)
          \/ StartsWith(cfg.additionalSshPublicKeys.items[i], SshEd25519)
          \/ StartsWith(cfg.additionalSshPublicKeys.items[i], EcdsaSha2Nistp)

\* the fields validateConfig names in its errors, in the order of its rules
ValidatedFields ==
    <<"domain", "hostedZoneId", "ssmPasswordParameterName", "email", "keyPairName",
      "volumeSize", "additionalSshPublicKeys">>

\* C1: validateConfig accepts every well-formed configuration (hostname
\* domain, hostedZoneId absent or starting with Z, parameter name starting
\* with /, well-formed email, non-blank key pair name, volume size in
\* [8, 16384], every additional key starting with a recognised prefix),
\* whatever useElasticIp is: once the constructor has run on such a
\* configuration, no error naming a validated field was raised.
C1_WellFormedAccepted ==
    (pc # "new" /\ WellFormed(config))
        => \A i \in 1..Len(ValidatedFields) : error.field # ValidatedFields[i]

\* a well-formed configuration with a zone identifier and no Elastic IP went
\* through the constructor
C1_Witness ==
    /\ pc = "synthesized"
    /\ WellFormed(config)
    /\ config.useElasticIp # "true"
    /\ Truthy(config.hostedZoneId)

\* C2: when the configuration violates a rule of validateConfig or of
\* parseInstanceType, the constructor throws and the stack holds no construct
\* (no security group, role, instance, Elastic IP, DNS record or output) and
\* no user data; a constructor that threw never leaves a construct behind.
C2_NothingComposedOnError ==
    /\ (pc # "new" /\ (validateConfig(config) # NoError
                       \/ parseInstanceType(config.instanceType).error # NoError))
         => pc = "threw" /\ error # NoError
    /\ pc = "threw" => children = <<>> /\ userData = <<>>

\* the constructor threw on an instance type that parseInstanceType refuses,
\* after validateConfig had accepted the configuration
C2_Witness ==
    /\ pc = "threw"
    /\ error.field = "instanceType"
    /\ validateConfig(config) = NoError

\* which rules, in the order of ValidatedFields, the configuration violates
Violated(cfg) ==
    <<DomainInvalid(cfg), HostedZoneIdInvalid(cfg), ParameterNameInvalid(cfg),
      EmailInvalid(cfg), KeyPairNameInvalid(cfg), VolumeSizeInvalid(cfg), KeysInvalid(cfg)>>

\* C3: validateConfig is fail-fast: on a configuration that violates one or
\* more rules the single error raised names the field of the first violated
\* rule in the order domain, hostedZoneId, ssmPasswordParameterName, email,
\* keyPairName, volumeSize, additionalSshPublicKeys, and for the keys the
\* lowest offending index.
C3_FirstViolatedRuleReported ==
    pc # "new" =>
        \A i \in 1..Len(ValidatedFields) :
            (Violated(config)[i] /\ \A j \in 1..(i - 1) : ~Violated(config)[j])
                => /\ pc = "threw"
                   /\ error.field = ValidatedFields[i]
                   /\ error.field = "additionalSshPublicKeys" =>
                        /\ error.index >= 0
                        /\ ~sshKeyPattern(config.additionalSshPublicKeys.items[error.index + 1])
                        /\ \A k \in 1..error.index :
                              sshKeyPattern(config.additionalSshPublicKeys.items[k])

\* the constructor threw on a configuration that violates the email rule and
\* two later rules, the second key of the list being the first bad one
C3_Witness ==
    /\ pc = "threw"
    /\ error.field = "email"
    /\ VolumeSizeInvalid(config)
    /\ KeysInvalid(config)
    /\ FirstBadKey(config.additionalSshPublicKeys.items) = 1

ChildrenOfType(t) == {i \in 1..Len(children) : children[i].type = t}
OutputValue(name) ==
    children[CHOOSE i \in ChildrenOfType("CfnOutput") : children[i].id = name].value

\* C4: with useElasticIp false or absent the stack holds no CfnEIP, no
\* CfnEIPAssociation and no ARecord, whether or not hostedZoneId is given,
\* and the PublicIP output is the instance's own public address.
C4_NoEipNoDns ==
    (pc = "synthesized" /\ config.useElasticIp # "true")
        => /\ ChildrenOfType("CfnEIP") = {}
           /\ ChildrenOfType("CfnEIPAssociation") = {}
           /\ ChildrenOfType("ARecord") = {}
           /\ OutputValue("PublicIP") = Attr("DevInstance", "PublicIp")

\* a stack was composed without Elastic IP from a configuration that names a
\* hosted zone
C4_Witness ==
    /\ pc = "synthesized"
    /\ config.useElasticIp = "false"
    /\ Truthy(config.hostedZoneId)

\* C5: with useElasticIp true and a hostedZoneId the stack holds exactly one
\* ARecord; its record name is the configured domain and its target is the
\* public address of the one CfnEIP, the address whose allocation is
\* associated with the instance and which the PublicIP output reports.
C5_OneRecordOnTheEip ==
    (pc = "synthesized" /\ config.useElasticIp = "true" /\ Truthy(config.hostedZoneId))
        => /\ Cardinality(ChildrenOfType("ARecord")) = 1
           /\ Cardinality(ChildrenOfType("CfnEIP")) = 1
           /\ Cardinality(ChildrenOfType("CfnEIPAssociation")) = 1
           /\ Cardinality(ChildrenOfType("Instance")) = 1
           /\ \A r \in ChildrenOfType("ARecord"), e \in ChildrenOfType("CfnEIP"),
                 a \in ChildrenOfType("CfnEIPAssociation"), n \in ChildrenOfType("Instance") :
                 /\ children[r].recordName = config.domain
                 /\ children[r].target = Attr(children[e].id, "PublicIp")
                 /\ children[a].allocationId = Attr(children[e].id, "AllocationId")
                 /\ children[a].instanceId = Ref(children[n].id)
                 /\ OutputValue("PublicIP") = children[r].target

\* a stack was composed with Elastic IP and a hosted zone
C5_Witness ==
    /\ pc = "synthesized"
    /\ config.useElasticIp = "true"
    /\ Truthy(config.hostedZoneId)
    /\ ChildrenOfType("ARecord") # {}

\* C6: with useElasticIp true and no hostedZoneId the stack holds one CfnEIP
\* associated with the one instance, no ARecord, and the DNSSetup output is
\* the manual instruction naming the configured domain.
C6_EipWithManualDns ==
    (pc = "synthesized" /\ config.useElasticIp = "true" /\ ~Truthy(config.hostedZoneId))
        => /\ Cardinality(ChildrenOfType("CfnEIP")) = 1
           /\ Cardinality(ChildrenOfType("CfnEIPAssociation")) = 1
           /\ Cardinality(ChildrenOfType("Instance")) = 1
           /\ \A e \in ChildrenOfType("CfnEIP"), a \in ChildrenOfType("CfnEIPAssociation"),
                 n \in ChildrenOfType("Instance") :
                 /\ children[a].allocationId = Attr(children[e].id, "AllocationId")
                 /\ children[a].instanceId = Ref(children[n].id)
           /\ ChildrenOfType("ARecord") = {}
           /\ OutputValue("DNSSetup")
                = <<"Create A record: ">> \o config.domain \o <<" -> <PublicIP>">>
           /\ OutputValue("DNSSetup")
                # <<"DNS A record created automatically for ">> \o config.domain

\* a stack was composed with Elastic IP from a configuration without
\* hostedZoneId
C6_Witness ==
    /\ pc = "synthesized"
    /\ config.useElasticIp = "true"
    /\ config.hostedZoneId = Undefined
    /\ ChildrenOfType("CfnEIP") # {}

\* the value configured for each placeholder
PlaceholderValue(cfg, token) ==
    CASE token = "__DOMAIN__" -> cfg.domain
      [] token = "__EMAIL__" -> cfg.email
      [] token = "__AWS_REGION__" -> cfg.region
      [] token = "__SSM_PASSWORD_PARAMETER__" -> cfg.ssmPasswordParameterName
      [] token = "__ADDITIONAL_SSH_KEYS__" ->
            IF cfg.additionalSshPublicKeys.defined
            THEN Join(cfg.additionalSshPublicKeys.items, "\n")
            ELSE <<>>
      [] token = "__ENABLE_SSH_PASSWORD_AUTH__" ->
            IF cfg.enableSshPasswordAuth = "true" THEN <<"true">> ELSE <<"false">>

\* the template with every placeholder occurrence replaced by the literal
\* configured value, the values themselves left as they are
LiteralRendering(cfg) ==
    Flatten([i \in 1..Len(InitSh) |->
                IF InitSh[i] \in Placeholders
                THEN PlaceholderValue(cfg, InitSh[i])
                ELSE <<InitSh[i]>>],
            1, Len(InitSh))

\* C7: the rendered boot script is the template with every placeholder
\* occurrence replaced by the literal value of its configuration field,
\* exactly as configured: no placeholder of the template is left, and no
\* configured value is rewritten by a later substitution.
C7_LiteralSubstitution ==
    pc = "synthesized" => userData = LiteralRendering(config)

-----------------------------------------------------------------------------
(* The first-boot script: scripts/init.sh as rendered into the user data *)

\* the value the rendered script assigns in  NAME="..."
ShellVar(script, name) ==
    LET i == CHOOSE k \in 1..(Len(script) - 1) : script[k] = name /\ script[k + 1] = "\""
        j == CHOOSE k \in (i + 2)..Len(script) :
                 script[k] = "\"" /\ \A m \in (i + 2)..(k - 1) : script[m] # "\""
    IN  SubSeq(script, i + 2, j - 1)

\* messages of the script
MsgAwsCliMissing == "ERROR: AWS CLI is not installed or not in PATH"
MsgSsmFailed == "ERROR: Failed to retrieve password from SSM Parameter Store"
MsgSsmEmpty == "ERROR: Retrieved empty password from SSM Parameter Store"
MsgPasswordRetrieved == "Password retrieved successfully from SSM"
MsgSshdInvalid == "ERROR: Invalid sshd configuration after enabling password auth"
MsgSshdRestartFailed == "ERROR: Failed to restart sshd service"
MsgSshPasswordEnabled == "SSH password authentication enabled"
MsgSshPasswordDisabled == "[6/8] SSH password authentication disabled (key-based only)"
MsgNoKeys == "No additional SSH keys configured"
MsgCertExists == "SSL certificate already exists, skipping certbot"
MsgClaudeInstalled == "Claude Code already installed, skipping"
MsgCompleted == "Setup completed"

\* values the SSM parameter may hold when it is read
SsmValues == {<<>>, <<"p", "w">>}

\* one section of the script has run: the script is at `next` (or has exited
\* with `status`), `cmds` returned non-zero, `msgs` were echoed
Goto(this, next, status, cmds, msgs, newHost, newPassword) ==
    /\ step' = next
    /\ exitStatus' = status
    /\ ran' = Append(ran, this)
    /\ failed' = failed \o cmds
    /\ log' = log \o msgs
    /\ host' = newHost
    /\ CODE_SERVER_PASSWORD' = newPassword
    /\ UNCHANGED <<stackVars, runs>>

Proceed(this, next, msgs, newHost) ==
    Goto(this, next, Running, <<>>, msgs, newHost, CODE_SERVER_PASSWORD)

\* set -e: the command's non-zero status ends the script (also: exit 1)
Abort(this, cmd, msgs, newHost) ==
    Goto(this, "exited", 1, <<cmd>>, msgs, newHost, CODE_SERVER_PASSWORD)

\* the instance boots with the rendered user data and cloud-init starts it
StartScript ==
    /\ pc = "synthesized"
    /\ step = "InstallPackages"
    /\ runs = 0
    /\ runs' = 1
    /\ UNCHANGED <<stackVars, step, exitStatus, ran, failed, log, CODE_SERVER_PASSWORD, host>>

InRun(s) == runs >= 1 /\ step = s

\* [1/8] dnf update -y; dnf install -y nginx git nodejs22 ...
InstallPackages ==
    /\ InRun("InstallPackages")
    /\ \E ok \in BOOLEAN :
          IF ok THEN Proceed("InstallPackages", "InstallGitHubCli", <<>>, host)
          ELSE Abort("InstallPackages", "dnf install", <<>>, host)

\* [1b/8] GitHub CLI repository and package
InstallGitHubCli ==
    /\ InRun("InstallGitHubCli")
    /\ \E ok \in BOOLEAN :
          IF ok THEN Proceed("InstallGitHubCli", "RetrievePassword", <<>>, host)
          ELSE Abort("InstallGitHubCli", "dnf install gh", <<>>, host)

\* the section without the test for an empty value
RetrievePasswordNoEmptyCheck ==
    /\ InRun("RetrievePassword")
    /\ \E awsCli \in BOOLEAN, retrieved \in BOOLEAN, value \in SsmValues :
          IF ~awsCli
          THEN Abort("RetrievePassword", "command -v aws", <<MsgAwsCliMissing>>, host)
          ELSE IF ~retrieved
          THEN Abort("RetrievePassword", "aws ssm get-parameter", <<MsgSsmFailed>>, host)
          ELSE Goto("RetrievePassword", "InstallCodeServer", Running, <<>>,
                    <<MsgPasswordRetrieved>>, host, value)

\* [2/8] aws ssm get-parameter under set +e, then the two tests of its result
RetrievePassword ==
    /\ InRun("RetrievePassword")
    /\ \E awsCli \in BOOLEAN, retrieved \in BOOLEAN, value \in SsmValues :
          IF ~awsCli
          THEN Abort("RetrievePassword", "command -v aws", <<MsgAwsCliMissing>>, host)
          ELSE IF ~retrieved
          THEN Abort("RetrievePassword", "aws ssm get-parameter", <<MsgSsmFailed>>, host)
          ELSE IF value = <<>>
          THEN Goto("RetrievePassword", "exited", 1, <<"empty password">>,
                    <<MsgSsmEmpty>>, host, value)
          ELSE Goto("RetrievePassword", "InstallCodeServer", Running, <<>>,
                    <<MsgPasswordRetrieved>>, host, value)

\* [3/8] curl -fsSL https://code-server.dev/install.sh | sh, unless installed.
\* The pipeline's status is that of sh: with the download failed sh reads
\* nothing and returns 0.
InstallCodeServer ==
    /\ InRun("InstallCodeServer")
    /\ IF host.codeServerInstalled
       THEN Proceed("InstallCodeServer", "WriteCodeServerConfig", <<>>, host)
       ELSE \E outcome \in {"installed", "download failed", "installer failed"} :
               CASE outcome = "installed" ->
                        Proceed("InstallCodeServer", "WriteCodeServerConfig", <<>>,
                                [host EXCEPT !.codeServerInstalled = TRUE])
                 [] outcome = "download failed" ->
                        Goto("InstallCodeServer", "WriteCodeServerConfig", Running,
                             <<"curl">>, <<>>, host, CODE_SERVER_PASSWORD)
                 [] outcome = "installer failed" ->
                        Abort("InstallCodeServer", "sh", <<>>, host)

\* mkdir -p; cat > config.yaml; chown; chmod
WriteCodeServerConfig ==
    /\ InRun("WriteCodeServerConfig")
    /\ \E outcome \in {"ok", "mkdir failed", "chown failed"} :
          CASE outcome = "ok" ->
                   Proceed("WriteCodeServerConfig", "EnableCodeServer", <<>>,
                           [host EXCEPT !.configYaml = CODE_SERVER_PASSWORD])
            [] outcome = "mkdir failed" ->
                   Abort("WriteCodeServerConfig", "mkdir", <<>>, host)
            [] outcome = "chown failed" ->
                   Abort("WriteCodeServerConfig", "chown",  <<>>,
                         [host EXCEPT !.configYaml = CODE_SERVER_PASSWORD])

\* systemctl enable --now code-server@ec2-user (there is no such unit unless
\* code-server is installed)
EnableCodeServer ==
    /\ InRun("EnableCodeServer")
    /\ \E ok \in BOOLEAN :
          IF ok /\ host.codeServerInstalled
          THEN Proceed("EnableCodeServer", "WriteNginxHttpConfig", <<>>,
                       [host EXCEPT !.codeServerEnabled = TRUE])
          ELSE Abort("EnableCodeServer", "systemctl enable code-server", <<>>, host)

\* [4/8] mkdir -p /var/www/html; cat > code-server.conf (HTTP only)
WriteNginxHttpConfig ==
    /\ InRun("WriteNginxHttpConfig")
    /\ \E ok \in BOOLEAN :
          IF ok
          THEN Proceed("WriteNginxHttpConfig", "StartNginx", <<>>,
                       [host EXCEPT !.nginxConf = "http"])
          ELSE Abort("WriteNginxHttpConfig", "cat > code-server.conf", <<>>, host)

\* systemctl enable nginx; systemctl restart nginx
StartNginx ==
    /\ InRun("StartNginx")
    /\ \E ok \in BOOLEAN :
          IF ok
          THEN Proceed("StartNginx", "InstallCertbot", <<>>,
                       [host EXCEPT !.nginxServing = host.nginxConf])
          ELSE Abort("StartNginx", "systemctl restart nginx", <<>>, host)

\* [5/8] dnf install -y certbot
InstallCertbot ==
    /\ InRun("InstallCertbot")
    /\ \E ok \in BOOLEAN :
          IF ok THEN Proceed("InstallCertbot", "RequestCertificate", <<>>, host)
          ELSE Abort("InstallCertbot", "dnf install certbot", <<>>, host)

\* the section with a certbot whose failure is ignored
RequestCertificateIgnoringFailure ==
    /\ InRun("RequestCertificate")
    /\ IF host.certExists
       THEN Proceed("RequestCertificate", "WriteNginxSslConfig", <<MsgCertExists>>, host)
       ELSE \E ok \in BOOLEAN :
               IF ok
               THEN Proceed("RequestCertificate", "WriteNginxSslConfig", <<>>,
                            [host EXCEPT !.certExists = TRUE])
               ELSE Goto("RequestCertificate", "WriteNginxSslConfig", Running,
                         <<"certbot">>, <<>>, host, CODE_SERVER_PASSWORD)

\* the section without the test for fullchain.pem
RequestCertificateAlways ==
    /\ InRun("RequestCertificate")
    /\ \E ok \in BOOLEAN :
          IF ok
          THEN Proceed("RequestCertificate", "WriteNginxSslConfig", <<>>,
                       [host EXCEPT !.certExists = TRUE])
          ELSE Abort("RequestCertificate", "certbot", <<>>, host)

\* certbot certonly --webroot, unless fullchain.pem exists
RequestCertificate ==
    /\ InRun("RequestCertificate")
    /\ IF host.certExists
       THEN Proceed("RequestCertificate", "WriteNginxSslConfig", <<MsgCertExists>>, host)
       ELSE \E ok \in BOOLEAN :
               IF ok
               THEN Proceed("RequestCertificate", "WriteNginxSslConfig", <<>>,
                            [host EXCEPT !.certExists = TRUE])
               ELSE Abort("RequestCertificate", "certbot", <<>>, host)

\* cat > code-server.conf (with the HTTPS server)
WriteNginxSslConfig ==
    /\ InRun("WriteNginxSslConfig")
    /\ \E ok \in BOOLEAN :
          IF ok
          THEN Proceed("WriteNginxSslConfig", "TestAndRestartNginx", <<>>,
                       [host EXCEPT !.nginxConf = "ssl"])
          ELSE Abort("WriteNginxSslConfig", "cat > code-server.conf", <<>>, host)

\* nginx -t && systemctl restart nginx.  Under set -e a failing command of an
\* && list ends the script only when it is the last one of the list.
TestAndRestartNginx ==
    /\ InRun("TestAndRestartNginx")
    /\ \E outcome \in {"restarted", "test failed", "restart failed"} :
          CASE outcome = "restarted" ->
                   Proceed("TestAndRestartNginx", "SshPasswordAuth", <<>>,
                           [host EXCEPT !.nginxServing = host.nginxConf])
            [] outcome = "test failed" ->
                   Goto("TestAndRestartNginx", "SshPasswordAuth", Running,
                        <<"nginx -t">>, <<>>, host, CODE_SERVER_PASSWORD)
            [] outcome = "restart failed" ->
                   Abort("TestAndRestartNginx", "systemctl restart nginx", <<>>, host)

\* [6/8] chpasswd; sed -i sshd_config; sshd -t; systemctl restart sshd, when
\* ENABLE_SSH_PASSWORD_AUTH is "true"
SshPasswordAuth ==
    /\ InRun("SshPasswordAuth")
    /\ IF ShellVar(userData, "ENABLE_SSH_PASSWORD_AUTH=") = <<"true">>
       THEN \E outcome \in {"ok", "chpasswd failed", "sed failed", "sshd -t failed",
                            "restart failed"} :
               LET h1 == [host EXCEPT !.userPassword = CODE_SERVER_PASSWORD]
                   h2 == [h1 EXCEPT !.sshdPasswordAuthentication = TRUE]
                   h3 == [h2 EXCEPT !.sshdRestarted = TRUE]
               IN  CASE outcome = "ok" ->
                            Proceed("SshPasswordAuth", "AddSshKeys",
                                    <<MsgSshPasswordEnabled>>, h3)
                     [] outcome = "chpasswd failed" ->
                            Abort("SshPasswordAuth", "chpasswd", <<>>, host)
                     [] outcome = "sed failed" ->
                            Abort("SshPasswordAuth", "sed", <<>>, h1)
                     [] outcome = "sshd -t failed" ->
                            Abort("SshPasswordAuth", "sshd -t", <<MsgSshdInvalid>>, h2)
                     [] outcome = "restart failed" ->
                            Abort("SshPasswordAuth", "systemctl restart sshd",
                                  <<MsgSshdRestartFailed>>, h2)
       ELSE Proceed("SshPasswordAuth", "AddSshKeys", <<MsgSshPasswordDisabled>>, host)

\* grep -qF "$key" authorized_keys: some line of the file contains the key
InKeysFile(file, key) == \E i \in 1..Len(file) : Contains(file[i], key)

RECURSIVE AppendKeys(_, _)
\* the while read loop: every non-empty line not found in the file is appended
AppendKeys(file, lines) ==
    IF Len(lines) = 0 THEN file
    ELSE IF Head(lines) # <<>> /\ ~InKeysFile(file, Head(lines))
    THEN AppendKeys(Append(file, Head(lines)), Tail(lines))
    ELSE AppendKeys(file, Tail(lines))

\* echo "$ADDITIONAL_KEYS" | grep -q "^ssh-": some line starts with ssh-
KeysProvided(lines) ==
    \E i \in 1..Len(lines) : StartsWith(lines[i], <<"s", "s", "h", "-">>)

\* [7/8] append the additional keys to authorized_keys; chmod; chown
AddSshKeys ==
    /\ InRun("AddSshKeys")
    /\ LET lines == Split(ShellVar(userData, "ADDITIONAL_KEYS="), "\n")
           file == AppendKeys(host.authorizedKeys, lines)
           added == [host EXCEPT !.authorizedKeys = file]
       IN  IF KeysProvided(lines)
           THEN \E outcome \in {"ok", "chmod failed"}
                               \cup (IF file # host.authorizedKeys
                                     THEN {"write failed"} ELSE {}) :
                   CASE outcome = "ok" ->
                            Proceed("AddSshKeys", "InstallClaude", <<>>, added)
                     [] outcome = "chmod failed" ->
                            Abort("AddSshKeys", "chmod", <<>>, added)
                     [] outcome = "write failed" ->
                            Abort("AddSshKeys", "echo >> authorized_keys", <<>>, host)
           ELSE Proceed("AddSshKeys", "InstallClaude", <<MsgNoKeys>>, host)

\* [8/8] npm install -g @anthropic-ai/claude-code, unless installed
InstallClaude ==
    /\ InRun("InstallClaude")
    /\ IF host.claudeInstalled
       THEN Proceed("InstallClaude", "Finish", <<MsgClaudeInstalled>>, host)
       ELSE \E ok \in BOOLEAN :
               IF ok
               THEN Proceed("InstallClaude", "Finish", <<>>,
                            [host EXCEPT !.claudeInstalled = TRUE])
               ELSE Abort("InstallClaude", "npm install", <<>>, host)

\* the closing messages; the script ends with status 0
Finish ==
    /\ InRun("Finish")
    /\ Goto("Finish", "exited", 0, <<>>, <<MsgCompleted>>, host, CODE_SERVER_PASSWORD)

\* the script is started again on the same instance
Rerun ==
    /\ step = "exited"
    /\ runs < MaxRuns
    /\ step' = "InstallPackages"
    /\ exitStatus' = Running
    /\ runs' = runs + 1
    /\ ran' = <<>>
    /\ failed' = <<>>
    /\ log' = <<>>
    /\ CODE_SERVER_PASSWORD' = <<>>
    /\ UNCHANGED <<stackVars, host>>

\* configurations the instance is booted with
BootConfigs ==
    {[BaseConfig EXCEPT !.enableSshPasswordAuth = b, !.additionalSshPublicKeys = ks] :
        b \in Tristate,
        ks \in {NoArray} \cup {Array(l) : l \in SeqsUpTo({KeyRsa, KeyRsaLong, KeyEcdsa}, MaxKeys)}}

BootInit ==
    /\ config \in BootConfigs
    /\ pc = "new"
    /\ error = NoError
    /\ children = <<>>
    /\ userData = <<>>
    /\ BootNotStarted

BootNext ==
    \/ Construct
    \/ StartScript
    \/ InstallPackages
    \/ InstallGitHubCli
    \/ RetrievePassword
    \/ InstallCodeServer
    \/ WriteCodeServerConfig
    \/ EnableCodeServer
    \/ WriteNginxHttpConfig
    \/ StartNginx
    \/ InstallCertbot
    \/ RequestCertificate
    \/ WriteNginxSslConfig
    \/ TestAndRestartNginx
    \/ SshPasswordAuth
    \/ AddSshKeys
    \/ InstallClaude
    \/ Finish
    \/ Rerun

BootSpec == BootInit /\ [][BootNext]_vars

-----------------------------------------------------------------------------
(* Properties of the boot script *)

InSeq(x, xs) == \E i \in 1..Len(xs) : xs[i] = x

\* the script has ended with a non-zero status and without its closing message
AbortedRun ==
    /\ step = "exited"
    /\ exitStatus # Running
    /\ exitStatus # 0
    /\ ~InSeq(MsgCompleted, log)

\* the commands of the steps the claim lists: package install, editor
\* installer download, secret retrieval, service enable, proxy start,
\* certificate request, proxy configuration test, key installation, CLI install
ListedCommands ==
    {"dnf install", "curl", "aws ssm get-parameter", "systemctl enable code-server",
     "systemctl restart nginx", "certbot", "nginx -t", "echo >> authorized_keys",
     "npm install"}

\* C8: the boot script aborts on the first failing step: once the command of
\* a step has failed, the script has ended with a non-zero status, the failed
\* step is the last one executed, no step ran twice, and "Setup completed"
\* was not printed.
C8_AbortOnFirstFailure ==
    /\ (\E i \in 1..Len(failed) : failed[i] \in ListedCommands)
         => AbortedRun /\ Len(failed) = 1
    /\ \A i, j \in 1..Len(ran) : ran[i] = ran[j] => i = j

\* C9: a failed secret retrieval, a failed certificate issuance and a failed
\* configuration test (nginx -t, sshd -t) each end the script with a non-zero
\* status; the script does not go on to the following steps or report
\* completion.
C9_NamedStepsAbort ==
    \A c \in {"aws ssm get-parameter", "certbot", "nginx -t", "sshd -t"} :
        InSeq(c, failed) => AbortedRun /\ failed[Len(failed)] = c

\* C10: a secret retrieval that fails and one that returns an empty value are
\* both fatal, each with its own error message; the run then executes nothing
\* after the retrieval and does not write config.yaml; a run that writes
\* config.yaml does so after a successful retrieval of a non-empty value, and
\* writes that value as the password.
C10_EmptySecretIsFatalAndDistinct ==
    /\ MsgSsmFailed # MsgSsmEmpty
    /\ InSeq("aws ssm get-parameter", failed)
         => /\ AbortedRun
            /\ InSeq(MsgSsmFailed, log) /\ ~InSeq(MsgSsmEmpty, log)
    /\ InSeq("empty password", failed)
         => /\ AbortedRun
            /\ InSeq(MsgSsmEmpty, log) /\ ~InSeq(MsgSsmFailed, log)
    /\ (InSeq("aws ssm get-parameter", failed) \/ InSeq("empty password", failed))
         => /\ ran[Len(ran)] = "RetrievePassword"
            /\ ~InSeq("WriteCodeServerConfig", ran)
            /\ ~InSeq(MsgPasswordRetrieved, log)
            /\ runs = 1 => host.configYaml = NoFile
    /\ InSeq("InstallCodeServer", ran)
         => /\ InSeq(MsgPasswordRetrieved, log)
            /\ CODE_SERVER_PASSWORD \in SsmValues \ {<<>>}
    /\ InSeq("EnableCodeServer", ran) => host.configYaml = CODE_SERVER_PASSWORD

\* a second run of the script ended on an empty secret, after a first run
\* that had written config.yaml
C10_Witness ==
    /\ runs = 2
    /\ step = "exited"
    /\ InSeq("empty password", failed)
    /\ InSeq(MsgSsmEmpty, log)
    /\ host.configYaml # NoFile

\* the section `this` was skipped: it echoed `msg`, ran no command, changed
\* nothing on the instance, and the script is at the section `next`
Skipped(this, next, msg) ==
    /\ step' = next
    /\ exitStatus' = Running
    /\ ran' = Append(ran, this)
    /\ failed' = failed
    /\ log' = Append(log, msg)
    /\ host' = host

\* C11: on a run in which the certificate of the domain already exists the
\* certificate request is not executed, and on a run in which the CLI
\* assistant is already installed its installation is not executed; in both
\* cases the script goes on with the following section.
C11_SkipsWhatIsPresent ==
    [][/\ (InRun("RequestCertificate") /\ host.certExists)
            => Skipped("RequestCertificate", "WriteNginxSslConfig", MsgCertExists)
       /\ (InRun("InstallClaude") /\ host.claudeInstalled)
            => Skipped("InstallClaude", "Finish", MsgClaudeInstalled)]_vars

\* a second run has completed having skipped both the certificate request
\* and the installation of the CLI assistant
C11_Witness ==
    /\ runs = 2
    /\ step = "exited"
    /\ exitStatus = 0
    /\ InSeq(MsgCertExists, log)
    /\ InSeq(MsgClaudeInstalled, log)
    /\ host.certExists
    /\ host.claudeInstalled

\* the additional-keys section of the current run went through its loop over
\* the configured keys and every write to authorized_keys succeeded
KeysLoopDone ==
    /\ InSeq("AddSshKeys", ran)
    /\ ~InSeq(MsgNoKeys, log)
    /\ ~InSeq("echo >> authorized_keys", failed)

\* C12: after the additional-keys step every configured key is an entry of
\* authorized_keys (a key is skipped only when an identical entry exists, not
\* when it occurs inside a longer entry), and no entry of the file is
\* duplicated, however many times the step has run.
C12_ExactMatchDedup ==
    KeysLoopDone
      => /\ \A i \in 1..Len(config.additionalSshPublicKeys.items) :
                InSeq(config.additionalSshPublicKeys.items[i], host.authorizedKeys)
         /\ \A i, j \in 1..Len(host.authorizedKeys) :
                host.authorizedKeys[i] = host.authorizedKeys[j] => i = j

\* section a ran before section b in the current run
RanBefore(a, b) == \E i, j \in 1..Len(ran) : i < j /\ ran[i] = a /\ ran[j] = b

\* C18: in every run the reverse-proxy steps are ordered: when the script is
\* at the certificate request, the HTTP-only rule has been written and the
\* proxy restarted with it; the rule with HTTPS termination is written, and
\* the proxy restarted with it, only after the certificate section and only
\* while the certificate of the domain exists; the proxy never serves an
\* HTTPS rule whose certificate is missing.
C18_ProxyStepsOrdered ==
    /\ InRun("RequestCertificate")
         => /\ RanBefore("WriteNginxHttpConfig", "StartNginx")
            /\ host.nginxConf = "http"
            /\ host.nginxServing = "http"
    /\ InSeq("WriteNginxSslConfig", ran)
         => /\ RanBefore("StartNginx", "RequestCertificate")
            /\ RanBefore("RequestCertificate", "WriteNginxSslConfig")
            /\ host.certExists
    /\ InSeq("TestAndRestartNginx", ran)
         => RanBefore("WriteNginxSslConfig", "TestAndRestartNginx")
    /\ host.nginxConf = "ssl" => host.certExists
    /\ host.nginxServing = "ssl" => host.certExists

\* on the first boot the proxy has been restarted with the HTTPS rule, the
\* certificate having just been issued
C18_Witness ==
    /\ runs = 1
    /\ step = "SshPasswordAuth"
    /\ RanBefore("RequestCertificate", "TestAndRestartNginx")
    /\ ~InSeq(MsgCertExists, log)
    /\ host.nginxServing = "ssl"
    /\ host.certExists

\* C19: validateConfig and the boot script agree on the additional keys:
\* for every non-empty list validateConfig accepts (lists made only of
\* ecdsa-sha2-nistp keys included), a run of the boot script that completes
\* leaves every key of the list present in authorized_keys.
C19_AcceptedKeysInstalled ==
    (/\ step = "exited"
     /\ exitStatus = 0
     /\ validateConfig(config) = NoError
     /\ config.additionalSshPublicKeys.items # <<>>)
        => \A i \in 1..Len(config.additionalSshPublicKeys.items) :
               InKeysFile(host.authorizedKeys, config.additionalSshPublicKeys.items[i])

\* C20: password-based shell login is enabled only on request.  With
\* enableSshPasswordAuth false or absent the rendered flag is "false" and no
\* run sets the account password, edits sshd_config or restarts sshd.  With
\* it true, the password is set and the configuration toggled only in a run
\* that has retrieved a non-empty secret, and the password set is that
\* secret.
C20_PasswordLoginOnlyOnRequest ==
    /\ config.enableSshPasswordAuth # "true"
         => /\ pc = "synthesized"
                 => ShellVar(userData, "ENABLE_SSH_PASSWORD_AUTH=") = <<"false">>
            /\ host.userPassword = NoFile
            /\ ~host.sshdPasswordAuthentication
            /\ ~host.sshdRestarted
            /\ ~InSeq(MsgSshPasswordEnabled, log)
    /\ config.enableSshPasswordAuth = "true"
         => /\ host.userPassword # NoFile => host.userPassword \in SsmValues \ {<<>>}
            /\ host.sshdPasswordAuthentication => host.userPassword # NoFile
            /\ host.sshdRestarted => host.sshdPasswordAuthentication
            /\ InSeq("SshPasswordAuth", ran)
                 => /\ RanBefore("RetrievePassword", "SshPasswordAuth")
                    /\ InSeq(MsgPasswordRetrieved, log)
                    /\ CODE_SERVER_PASSWORD # <<>>
                    /\ ~InSeq("chpasswd", failed)
                         => host.userPassword = CODE_SERVER_PASSWORD

\* with the option on, a run has set the account password to the retrieved
\* secret, toggled sshd_config and restarted sshd
C20_Witness ==
    /\ config.enableSshPasswordAuth = "true"
    /\ step = "AddSshKeys"
    /\ InSeq(MsgSshPasswordEnabled, log)
    /\ host.userPassword = <<"p", "w">>
    /\ host.sshdPasswordAuthentication
    /\ host.sshdRestarted

-----------------------------------------------------------------------------
(* Properties of validateConfig, rule by rule *)

\* the text after the last dot of d
LastLabel(d) == LET labels == Split(d, ".") IN labels[Len(labels)]

\* d has no top-level segment: it is absent or empty, has no dot, or its
\* last label is not made of two letters or more
MissingTopLevel(d) ==
    \/ d = Undefined
    \/ d = <<>>
    \/ \A i \in 1..Len(d) : d[i] # "."
    \/ Len(LastLabel(d)) < 2
    \/ \E i \in 1..Len(LastLabel(d)) : LastLabel(d)[i] \notin Alpha

\* C13: validateConfig rejects every domain that is missing a top-level
\* segment (a single label with no dot, an empty or absent domain, a final
\* label that is not at least two letters), whatever the other fields are:
\* the constructor throws the domain error.
C13_DomainWithoutTldRejected ==
    (pc # "new" /\ MissingTopLevel(config.domain))
        => pc = "threw" /\ error.field = "domain"

\* the constructor threw the domain error on a single-label domain in a
\* configuration whose other fields are not those of the example, some of
\* them invalid too
C13_Witness ==
    /\ pc = "threw"
    /\ error.field = "domain"
    /\ config.domain = <<"a">>
    /\ config.email # BaseConfig.email
    /\ config.volumeSize < 8
    /\ config.hostedZoneId = Undefined

\* C14: validateConfig rejects every configuration whose volumeSize is below
\* 8 or above 16384, and raises no volume-size error for a value from 8 to
\* 16384, both included.
C14_VolumeSizeRange ==
    pc # "new" =>
        /\ config.volumeSize \notin 8..16384 => pc = "threw"
        /\ config.volumeSize \in 8..16384 => error.field # "volumeSize"
        /\ (config.volumeSize \notin 8..16384
               /\ [config EXCEPT !.volumeSize = 30] = BaseConfig)
             => error.field = "volumeSize"

\* the constructor threw the volume-size error on 16385
C14_Witness ==
    /\ pc = "threw"
    /\ error.field = "volumeSize"
    /\ config.volumeSize = 16385

\* the recognised key-type prefixes
KeyTypePrefixes == {SshRsa, SshEd25519, EcdsaSha2Nistp}
HasKeyTypePrefix(k) ==
    \E q \in KeyTypePrefixes : Len(k) >= Len(q) /\ \A i \in 1..Len(q) : k[i] = q[i]

\* C15: validateConfig rejects every configuration in which some additional
\* public key, at whatever place of the list, does not start with ssh-rsa,
\* ssh-ed25519 or ecdsa-sha2-nistp; an absent or empty list raises no error
\* on the keys.
C15_KeyPrefixRequired ==
    pc # "new" =>
        /\ (\E i \in 1..Len(config.additionalSshPublicKeys.items) :
                ~HasKeyTypePrefix(config.additionalSshPublicKeys.items[i]))
             => pc = "threw"
        /\ config.additionalSshPublicKeys.items = <<>>
             => error.field # "additionalSshPublicKeys"

\* the constructor threw on the second key of a list whose first key is of a
\* recognised type
C15_Witness ==
    /\ pc = "threw"
    /\ error.field = "additionalSshPublicKeys"
    /\ error.index = 1
    /\ HasKeyTypePrefix(config.additionalSshPublicKeys.items[1])
    /\ config.email = BaseConfig.email

\* C16: validateConfig rejects every configuration whose secret-store
\* parameter name is empty, absent or does not start with "/".
C16_ParameterNamePrefix ==
    (pc # "new"
     /\ (\/ config.ssmPasswordParameterName = Undefined
         \/ config.ssmPasswordParameterName = <<>>
         \/ config.ssmPasswordParameterName[1] # "/"))
        => /\ pc = "threw"
           /\ config.domain = BaseConfig.domain => error.field = "ssmPasswordParameterName"

\* the constructor threw on a parameter name that has its "/" after the
\* first character
C16_Witness ==
    /\ pc = "threw"
    /\ error.field = "ssmPasswordParameterName"
    /\ config.ssmPasswordParameterName = <<"p", "/">>

\* e has no domain segment after its "@": nothing follows the "@", or no "."
\* follows it
NoDomainSegment(e) ==
    \A i \in 1..Len(e) :
        e[i] = "@" => i = Len(e) \/ \A k \in (i + 1)..Len(e) : e[k] # "."

\* C17: validateConfig rejects every email that has no "@", and every email
\* that has no domain segment after the "@" (nothing after the "@", or a "."
\* only before it).
C17_EmailNeedsDomainSegment ==
    (pc # "new"
     /\ config.email # Undefined
     /\ (~Includes(config.email, "@") \/ NoDomainSegment(config.email)))
        => pc = "threw"

=============================================================================
